---- MODULE Spec2Model ----
(***************************************************************************)
(* The cross-account classification engine of security_monkey's            *)
(* ResourcePolicyAuditor: the process-wide knowledge base OBJECT_STORE,    *)
(* its builder prep_for_audit, the resolver inspect_who and the four       *)
(* cross-account checks.                                                   *)
(***************************************************************************)
EXTENDS Integers, Sequences, FiniteSets, TLC

VARIABLES
    OBJECT_STORE,   \* ResourcePolicyAuditor.OBJECT_STORE: table name -> (key -> set of account ids)
    last,           \* the call that was made last: its name, inputs, return value and findings
    pc,             \* per audit run: where the run is (only the interleaved specification moves it)
    passes          \* how many prep_for_audit calls went past the guard and populate

vars == <<OBJECT_STORE, last, pc, passes>>

(***************************************************************************)
(* Python values                                                           *)
(***************************************************************************)
None == "<None>"

\* `not key` for a key that is a string or None
Falsy(key) == key = None \/ key = ""

EmptyDict == << >>

(***************************************************************************)
(* Bounds of the model                                                     *)
(***************************************************************************)
\* width of an address in bits (IPv4 has 32)
AddrBits == 3

\* the number of policies of an item
MaxPolicies == 2

Addrs == 0 .. (2 ^ AddrBits - 1)

(***************************************************************************)
(* Account identifiers                                                     *)
(***************************************************************************)
SENTINEL == "000000000000"
ACCT_1 == "111111111111"
ACCT_2 == "222222222222"
ACCT_3 == "333333333333"

TableNames == {"s3", "userid", "ACCOUNTS", "vpc", "vpce", "cidr"}

(***************************************************************************)
(* The knowledge base                                                      *)
(***************************************************************************)
\* add(to, key, value)
add(to, key, value) ==
    IF Falsy(key) THEN to
    ELSE IF key \in DOMAIN to THEN [to EXCEPT ![key] = @ \cup {value}]
    ELSE to @@ (key :> {value})

\* OBJECT_STORE[key] on a defaultdict(dict): a missing key is created, holding {}
Touch(store, key) ==
    IF key \in DOMAIN store THEN store ELSE store @@ (key :> EmptyDict)

\* add(cls.OBJECT_STORE[table], key, value)
AddTo(store, table, key, value) ==
    LET s == Touch(store, table)
    IN  [s EXCEPT ![table] = add(@, key, value)]

RECURSIVE load_s3_buckets(_, _)
load_s3_buckets(store, results) ==
    IF results = << >> THEN store
    ELSE LET item == Head(results)
         IN  load_s3_buckets(AddTo(store, "s3", item.name, item.account), Tail(results))

RECURSIVE load_vpcs(_, _)
load_vpcs(store, results) ==
    IF results = << >> THEN store
    ELSE LET item == Head(results)
             s1 == AddTo(store, "vpc", item.id, item.account)
             s2 == AddTo(s1, "cidr", item.cidr_block, item.account)
         IN  load_vpcs(s2, Tail(results))

RECURSIVE load_vpces(_, _)
load_vpces(store, results) ==
    IF results = << >> THEN store
    ELSE LET item == Head(results)
         IN  load_vpces(AddTo(store, "vpce", item.id, item.account), Tail(results))

RECURSIVE load_addresses(_, _, _)
load_addresses(store, addresses, account) ==
    IF addresses = << >> THEN store
    ELSE LET address == Head(addresses)
             s1 == AddTo(store, "cidr", address.public_ip, account)
             s2 == AddTo(s1, "cidr", address.private_ip, account)
         IN  load_addresses(s2, Tail(addresses), account)

RECURSIVE load_natgateways(_, _)
load_natgateways(store, results) ==
    IF results = << >> THEN store
    ELSE LET gateway == Head(results)
         IN  load_natgateways(
                 load_addresses(store, gateway.nat_gateway_addresses, gateway.account),
                 Tail(results))

RECURSIVE load_network_whitelist(_, _)
load_network_whitelist(store, whitelist_entries) ==
    IF whitelist_entries = << >> THEN store
    ELSE LET entry == Head(whitelist_entries)
         IN  load_network_whitelist(AddTo(store, "cidr", entry.cidr, SENTINEL),
                                    Tail(whitelist_entries))

RECURSIVE load_user_rows(_, _)
load_user_rows(store, results) ==
    IF results = << >> THEN store
    ELSE LET item == Head(results)
         IN  load_user_rows(AddTo(store, "userid", item.UserId, item.account), Tail(results))

RECURSIVE load_role_rows(_, _)
load_role_rows(store, results) ==
    IF results = << >> THEN store
    ELSE LET item == Head(results)
         IN  load_role_rows(AddTo(store, "userid", item.RoleId, item.account), Tail(results))

load_userids(store, user_results, role_results) ==
    load_role_rows(load_user_rows(store, user_results), role_results)

RECURSIVE load_account_rows(_, _, _)
load_account_rows(store, tier, accounts) ==
    IF accounts = << >> THEN store
    ELSE load_account_rows(AddTo(store, "ACCOUNTS", tier, Head(accounts).identifier),
                           tier, Tail(accounts))

\* cls.OBJECT_STORE['ACCOUNTS'][tier] = set()
SetEmpty(store, tier) ==
    LET s == Touch(store, "ACCOUNTS")
    IN  [s EXCEPT !["ACCOUNTS"] =
            IF tier \in DOMAIN @ THEN [@ EXCEPT ![tier] = {}] ELSE @ @@ (tier :> {})]

load_accounts(store, all_accounts) ==
    LET friendly_accounts == SelectSeq(all_accounts, LAMBDA a : a.third_party = FALSE)
        third_party == SelectSeq(all_accounts, LAMBDA a : a.third_party = TRUE)
        s1 == load_account_rows(SetEmpty(store, "FRIENDLY"), "FRIENDLY", friendly_accounts)
    IN  load_account_rows(SetEmpty(s1, "THIRDPARTY"), "THIRDPARTY", third_party)

\* `not self.OBJECT_STORE`: a dict is false when it has no key at all
StoreIsFalse(store) == DOMAIN store = {}

\* the seven load steps of prep_for_audit, in the order of the code
LoadStep(store, repo, n) ==
    CASE n = 1 -> load_s3_buckets(store, repo.s3)
      [] n = 2 -> load_userids(store, repo.iamuser, repo.iamrole)
      [] n = 3 -> load_accounts(store, repo.accounts)
      [] n = 4 -> load_vpcs(store, repo.vpc)
      [] n = 5 -> load_vpces(store, repo.endpoint)
      [] n = 6 -> load_natgateways(store, repo.natgateway)
      [] n = 7 -> load_network_whitelist(store, repo.whitelist)

RECURSIVE LoadFrom(_, _, _)
LoadFrom(store, repo, n) ==
    IF n > 7 THEN store ELSE LoadFrom(LoadStep(store, repo, n), repo, n + 1)

\* prep_for_audit without its guard
prep_for_audit_unguarded(store, repo) == LoadFrom(store, repo, 1)

prep_for_audit(store, repo) ==
    IF StoreIsFalse(store) THEN LoadFrom(store, repo, 1) ELSE store

(***************************************************************************)
(* Collaborators: the ARN parser, str.split and the ipaddr library         *)
(***************************************************************************)
ArnRecord(tech, account_number, name, root, service, error) ==
    [tech |-> tech, account_number |-> account_number, name |-> name,
     root |-> root, service |-> service, error |-> error]

ROLE_ARN_1 == "arn:aws:iam::111111111111:role/foo"
ROOT_ARN_1 == "arn:aws:iam::111111111111:root"
ROOT_ARN_2 == "arn:aws:iam::222222222222:root"
ROOT_ARN_3 == "arn:aws:iam::333333333333:root"
BUCKET_ARN == "arn:aws:s3:::b1"
SERVICE == "lambda.amazonaws.com"
BAD_ARN == "garbage"

\* policyuniverse's ARN(input): the fields the auditor reads. A string that is
\* no ARN, account number or service name leaves every field at its default
\* (None / False) and sets error.
ARN(input) ==
    CASE input = ROLE_ARN_1 -> ArnRecord("iam", ACCT_1, "role/foo", FALSE, FALSE, FALSE)
      [] input = ROOT_ARN_1 -> ArnRecord("iam", ACCT_1, "root", TRUE, FALSE, FALSE)
      [] input = ROOT_ARN_2 -> ArnRecord("iam", ACCT_2, "root", TRUE, FALSE, FALSE)
      [] input = ROOT_ARN_3 -> ArnRecord("iam", ACCT_3, "root", TRUE, FALSE, FALSE)
      [] input = BUCKET_ARN -> ArnRecord("s3", "", "b1", FALSE, FALSE, FALSE)
      [] input = SERVICE -> ArnRecord("lambda", None, None, FALSE, TRUE, FALSE)
      [] input \in {ACCT_1, ACCT_2, ACCT_3} -> ArnRecord(None, input, None, FALSE, FALSE, FALSE)
      [] OTHER -> ArnRecord(None, None, None, FALSE, FALSE, TRUE)

\* userid.split(':')[0]
SplitFirst(userid) ==
    CASE userid = "AIDA1:session" -> "AIDA1"
      [] userid = "AROA9:session" -> "AROA9"
      [] OTHER -> userid

Nets == [ip : Addrs, prefixlen : 0 .. AddrBits]

\* the text of a network: "<ip>/<prefixlen>"; a bare "<ip>" is a host
CidrStr(n) == ToString(n.ip) \o "/" \o ToString(n.prefixlen)

HostStr(ip) == ToString(ip)

CidrTexts == {CidrStr(n) : n \in Nets} \cup {HostStr(a) : a \in Addrs}

\* ipaddr.IPNetwork(text), not strict: the host bits of the address are masked off
ParseTable ==
    [s \in CidrTexts |->
        LET n == CHOOSE m \in Nets :
                    \/ CidrStr(m) = s
                    \/ m.prefixlen = AddrBits /\ HostStr(m.ip) = s
            size == 2 ^ (AddrBits - n.prefixlen)
            network == n.ip - (n.ip % size)
        IN  [ip |-> n.ip, prefixlen |-> n.prefixlen,
             network |-> network, broadcast |-> network + size - 1]]

IPNetwork(s) == ParseTable[s]

\* `other in self` for two networks (ipaddr's _BaseNet.__contains__)
NetContains(self, other) ==
    self.network <= other.network /\ self.broadcast >= other.broadcast

(***************************************************************************)
(* Return values of the resolver: a Python set of tier names, a Python     *)
(* string, or an exception leaving the call                                *)
(***************************************************************************)
PySet(S) == [type |-> "set", set |-> S, str |-> ""]
PyStr(s) == [type |-> "str", set |-> {}, str |-> s]
PyRaise(e) == [type |-> "raise", set |-> {}, str |-> e]

Tiers == {"SAME", "FRIENDLY", "THIRDPARTY", "UNKNOWN", "ERROR"}

Letters ==
    [t \in Tiers |->
        CASE t = "SAME" -> <<"S", "A", "M", "E">>
          [] t = "FRIENDLY" -> <<"F", "R", "I", "E", "N", "D", "L", "Y">>
          [] t = "THIRDPARTY" -> <<"T", "H", "I", "R", "D", "P", "A", "R", "T", "Y">>
          [] t = "UNKNOWN" -> <<"U", "N", "K", "N", "O", "W", "N">>
          [] t = "ERROR" -> <<"E", "R", "R", "O", "R">>]

\* `a in b` for two strings: a is a substring of b
StrContains(b, a) ==
    \E i \in 1 .. (Len(Letters[b]) - Len(Letters[a]) + 1) :
        SubSeq(Letters[b], i, i + Len(Letters[a]) - 1) = Letters[a]

\* `tier in value` for what inspect_who returned
PyIn(tier, value) ==
    IF value.type = "set" THEN tier \in value.set ELSE StrContains(value.str, tier)

(***************************************************************************)
(* The resolver                                                            *)
(***************************************************************************)
\* inspect_who_account asking the registry before the home account
inspect_who_account_registry_first(account_number, same, store) ==
    IF account_number = SENTINEL THEN [ret |-> "SAME", store |-> store]
    ELSE LET s == Touch(store, "ACCOUNTS")
         IN  IF "FRIENDLY" \notin DOMAIN s["ACCOUNTS"] THEN [ret |-> "KeyError", store |-> s]
             ELSE IF account_number \in s["ACCOUNTS"]["FRIENDLY"]
                  THEN [ret |-> "FRIENDLY", store |-> s]
             ELSE IF "THIRDPARTY" \notin DOMAIN s["ACCOUNTS"]
                  THEN [ret |-> "KeyError", store |-> s]
             ELSE IF account_number \in s["ACCOUNTS"]["THIRDPARTY"]
                  THEN [ret |-> "THIRDPARTY", store |-> s]
             ELSE IF account_number = same.identifier THEN [ret |-> "SAME", store |-> s]
             ELSE [ret |-> "UNKNOWN", store |-> s]

\* inspect_who_account: the tier, or "KeyError" when the registry has no such set;
\* store is OBJECT_STORE after the call
inspect_who_account(account_number, same, store) ==
    IF account_number = SENTINEL THEN [ret |-> "SAME", store |-> store]
    ELSE IF account_number = same.identifier THEN [ret |-> "SAME", store |-> store]
    ELSE LET s == Touch(store, "ACCOUNTS")
         IN  IF "FRIENDLY" \notin DOMAIN s["ACCOUNTS"] THEN [ret |-> "KeyError", store |-> s]
             ELSE IF account_number \in s["ACCOUNTS"]["FRIENDLY"]
                  THEN [ret |-> "FRIENDLY", store |-> s]
             ELSE IF "THIRDPARTY" \notin DOMAIN s["ACCOUNTS"]
                  THEN [ret |-> "KeyError", store |-> s]
             ELSE IF account_number \in s["ACCOUNTS"]["THIRDPARTY"]
                  THEN [ret |-> "THIRDPARTY", store |-> s]
             ELSE [ret |-> "UNKNOWN", store |-> s]

\* set([self.inspect_who_account(account_number, same)])
AccountTierSet(account_number, same, store) ==
    LET r == inspect_who_account(account_number, same, store)
    IN  [ret |-> IF r.ret = "KeyError" THEN PyRaise("KeyError") ELSE PySet({r.ret}),
         store |-> r.store]

\* for account in owners: values.add(self.inspect_who_account(account, same))
OwnerTiers(owners, same, store) ==
    LET rs == {inspect_who_account(a, same, store) : a \in owners}
    IN  [ret |-> IF \E r \in rs : r.ret = "KeyError" THEN PyRaise("KeyError")
                 ELSE PySet({r.ret : r \in rs}),
         store |-> IF \E r \in rs : r.store # store THEN Touch(store, "ACCOUNTS") ELSE store]

inspect_who_generic(key, item, same, store) ==
    LET s == Touch(store, key)
    IN  IF item \in DOMAIN s[key] THEN OwnerTiers(s[key][item], same, s)
        ELSE [ret |-> PySet({"UNKNOWN"}), store |-> s]

inspect_who_s3(bucket_name, same, store) == inspect_who_generic("s3", bucket_name, same, store)

inspect_who_userid(userid, same, store) ==
    inspect_who_generic("userid", SplitFirst(userid), same, store)

inspect_who_vpc(vpcid, same, store) == inspect_who_generic("vpc", vpcid, same, store)

inspect_who_vpce(vpcid, same, store) == inspect_who_generic("vpce", vpcid, same, store)

\* inspect_who_cidr looking the text up as a key, as inspect_who_generic does
inspect_who_cidr_exact(cidr, same, store) ==
    LET s == Touch(store, "cidr")
    IN  IF cidr \in DOMAIN s["cidr"] THEN OwnerTiers(s["cidr"][cidr], same, s)
        ELSE [ret |-> PySet({"UNKNOWN"}), store |-> s]

inspect_who_cidr(cidr, same, store) ==
    LET s == Touch(store, "cidr")
        owners == UNION {s["cidr"][str_cidr] :
                            str_cidr \in {k \in DOMAIN s["cidr"] :
                                            NetContains(IPNetwork(k), IPNetwork(cidr))}}
        r == OwnerTiers(owners, same, s)
    IN  IF r.ret.type = "set" /\ r.ret.set = {} THEN [ret |-> PySet({"UNKNOWN"}), store |-> r.store]
        ELSE r

Finding(severity, tag, notes) == [severity |-> severity, tag |-> tag, notes |-> notes]

record_arn_parse_issue(arn) == Finding(3, "Auditor could not parse ARN", arn)

\* inspect_who_arn letting the parse error leave the call
inspect_who_arn_raising(arn_input, same, store) ==
    IF arn_input = "*" THEN [ret |-> PySet({"UNKNOWN"}), store |-> store, issues |-> {}]
    ELSE LET arn == ARN(arn_input)
             r == IF arn.tech = "s3" THEN inspect_who_s3(arn.name, same, store)
                  ELSE AccountTierSet(arn.account_number, same, store)
         IN  IF arn.error
             THEN [ret |-> PyRaise("ValueError"), store |-> store,
                   issues |-> {record_arn_parse_issue(arn_input)}]
             ELSE [ret |-> r.ret, store |-> r.store, issues |-> {}]

\* inspect_who_arn: the return value, OBJECT_STORE after the call, the findings recorded
inspect_who_arn(arn_input, same, store) ==
    IF arn_input = "*" THEN [ret |-> PySet({"UNKNOWN"}), store |-> store, issues |-> {}]
    ELSE LET arn == ARN(arn_input)
             found == IF arn.error THEN {record_arn_parse_issue(arn_input)} ELSE {}
             r == IF arn.tech = "s3" THEN inspect_who_s3(arn.name, same, store)
                  ELSE AccountTierSet(arn.account_number, same, store)
         IN  [ret |-> r.ret, store |-> r.store, issues |-> found]

NoIssues(r) == [ret |-> r.ret, store |-> r.store, issues |-> {}]

\* same = Account.query.filter(Account.name == item.account).first()
HomeAccount(item) == [identifier |-> item.account]

inspect_who(who, item, store) ==
    LET same == HomeAccount(item)
    IN  IF who.category \in {"arn", "principal"} THEN inspect_who_arn(who.value, same, store)
        ELSE IF who.category = "account" THEN NoIssues(AccountTierSet(who.value, same, store))
        ELSE IF who.category = "userid" THEN NoIssues(inspect_who_userid(who.value, same, store))
        ELSE IF who.category = "cidr" THEN NoIssues(inspect_who_cidr(who.value, same, store))
        ELSE IF who.category = "vpc" THEN NoIssues(inspect_who_vpc(who.value, same, store))
        ELSE IF who.category = "vpce" THEN NoIssues(inspect_who_vpce(who.value, same, store))
        ELSE [ret |-> PyStr("ERROR"), store |-> store, issues |-> {}]

(***************************************************************************)
(* Collaborators: the policy parser and the issue sink                     *)
(***************************************************************************)
Who(category, value) == [category |-> category, value |-> value]

Statement(effect, whos) == [effect |-> effect, actions |-> {"sns:Publish"}, whos |-> whos]

Policy(internet_accessible, statements) ==
    [internet_accessible |-> internet_accessible, statements |-> statements]

\* a policy document that is false in Python: {}
EmptyDoc == Policy(FALSE, << >>)

\* load_policies: the documents found at policy_keys, the false ones skipped
load_policies(item) == SelectSeq(item.policies, LAMBDA p : p # EmptyDoc)

\* policy.whos_allowed(): the references of the policy's Allow statements
RECURSIVE AllowedOf(_)
AllowedOf(statements) ==
    IF statements = << >> THEN << >>
    ELSE (IF Head(statements).effect = "Allow" THEN Head(statements).whos ELSE << >>)
         \o AllowedOf(Tail(statements))

whos_allowed(policy) == AllowedOf(policy.statements)

Notes(who) == "Access provided to " \o who.category \o ":" \o who.value \o "."

record_friendly_cross_account_access_issue(who) ==
    Finding(0, "Friendly Cross Account Access", Notes(who))

record_thirdparty_cross_account_access_issue(who) ==
    Finding(0, "Friendly Third Party Cross Account Access", Notes(who))

record_unknown_cross_account_access_issue(who) ==
    Finding(10, "Unknown Cross Account Access", Notes(who))

\* Auditor._check_cross_account_root(item, arn, actions): the dedicated
\* root-access finding, listing the granted actions
check_cross_account_root(arn, actions) ==
    [tag |-> "root-access", account_number |-> arn.account_number, actions |-> actions]

(***************************************************************************)
(* The checks. acc is the state of a check under way: OBJECT_STORE, the     *)
(* findings recorded so far, and whether an exception has left the check.  *)
(***************************************************************************)
Acc(store, found, raised) == [store |-> store, issues |-> found, raised |-> raised]

\* one reference in a loop of the form
\*     if tier in self.inspect_who(who, item): self.record_..._issue(item, who)
TierStep(tier, finding, who, item, acc) ==
    LET r == inspect_who(who, item, acc.store)
        seen == acc.issues \cup r.issues
    IN  IF r.ret.type = "raise" THEN Acc(r.store, seen, TRUE)
        ELSE IF PyIn(tier, r.ret) THEN Acc(r.store, seen \cup {finding}, FALSE)
        ELSE Acc(r.store, seen, FALSE)

friendly_who(who, item, acc) ==
    TierStep("FRIENDLY", record_friendly_cross_account_access_issue(who), who, item, acc)

RECURSIVE friendly_whos(_, _, _)
friendly_whos(whos, item, acc) ==
    IF acc.raised \/ whos = << >> THEN acc
    ELSE friendly_whos(Tail(whos), item, friendly_who(Head(whos), item, acc))

RECURSIVE friendly_policies(_, _, _)
friendly_policies(policies, item, acc) ==
    IF acc.raised \/ policies = << >> THEN acc
    ELSE friendly_policies(Tail(policies), item,
                           friendly_whos(whos_allowed(Head(policies)), item, acc))

check_friendly_cross_account(item, store) ==
    friendly_policies(load_policies(item), item, Acc(store, {}, FALSE))

thirdparty_who(who, item, acc) ==
    TierStep("THIRDPARTY", record_thirdparty_cross_account_access_issue(who), who, item, acc)

RECURSIVE thirdparty_whos(_, _, _)
thirdparty_whos(whos, item, acc) ==
    IF acc.raised \/ whos = << >> THEN acc
    ELSE thirdparty_whos(Tail(whos), item, thirdparty_who(Head(whos), item, acc))

RECURSIVE thirdparty_policies(_, _, _)
thirdparty_policies(policies, item, acc) ==
    IF acc.raised \/ policies = << >> THEN acc
    ELSE thirdparty_policies(Tail(policies), item,
                             thirdparty_whos(whos_allowed(Head(policies)), item, acc))

check_thirdparty_cross_account(item, store) ==
    thirdparty_policies(load_policies(item), item, Acc(store, {}, FALSE))

\* the two `continue`s taken whatever the category
unknown_skips_any_category(who) ==
    \/ who.value = "*"
    \/ ARN(who.value).service

\* the two `continue`s of check_unknown_cross_account
unknown_skips(who) ==
    \/ who.value = "*" /\ who.category = "principal"
    \/ who.category = "principal" /\ ARN(who.value).service

unknown_who(who, item, acc) ==
    IF unknown_skips(who) THEN acc
    ELSE TierStep("UNKNOWN", record_unknown_cross_account_access_issue(who), who, item, acc)

RECURSIVE unknown_whos(_, _, _)
unknown_whos(whos, item, acc) ==
    IF acc.raised \/ whos = << >> THEN acc
    ELSE unknown_whos(Tail(whos), item, unknown_who(Head(whos), item, acc))

RECURSIVE unknown_policies(_, _, _)
unknown_policies(policies, item, acc) ==
    IF acc.raised \/ policies = << >> THEN acc
    ELSE IF Head(policies).internet_accessible
         THEN unknown_policies(Tail(policies), item, acc)
    ELSE unknown_policies(Tail(policies), item,
                          unknown_whos(whos_allowed(Head(policies)), item, acc))

check_unknown_cross_account(item, store) ==
    unknown_policies(load_policies(item), item, Acc(store, {}, FALSE))

CrossTiers == {"FRIENDLY", "THIRDPARTY", "UNKNOWN"}

\* root_who reporting a root user of any tier
root_who_any_tier(who, statement, item, acc) ==
    IF who.category \notin {"arn", "principal"} THEN acc
    ELSE IF who.value = "*" THEN acc
    ELSE LET arn == ARN(who.value)
         IN  IF ~arn.root THEN acc
             ELSE LET r == inspect_who(who, item, acc.store)
                      seen == acc.issues \cup r.issues
                  IN  IF r.ret.type # "set" THEN Acc(r.store, seen, TRUE)
                      ELSE Acc(r.store,
                               seen \cup {check_cross_account_root(arn, statement.actions)},
                               FALSE)

root_who(who, statement, item, acc) ==
    IF who.category \notin {"arn", "principal"} THEN acc
    ELSE IF who.value = "*" THEN acc
    ELSE LET arn == ARN(who.value)
         IN  IF ~arn.root THEN acc
             ELSE LET r == inspect_who(who, item, acc.store)
                      seen == acc.issues \cup r.issues
                  IN  IF r.ret.type = "raise" THEN Acc(r.store, seen, TRUE)
                      ELSE IF r.ret.type # "set" THEN Acc(r.store, seen, TRUE)
                      ELSE IF r.ret.set \cap CrossTiers # {}
                           THEN Acc(r.store,
                                    seen \cup {check_cross_account_root(arn, statement.actions)},
                                    FALSE)
                      ELSE Acc(r.store, seen, FALSE)

RECURSIVE root_whos(_, _, _, _)
root_whos(whos, statement, item, acc) ==
    IF acc.raised \/ whos = << >> THEN acc
    ELSE root_whos(Tail(whos), statement, item, root_who(Head(whos), statement, item, acc))

RECURSIVE root_statements(_, _, _)
root_statements(statements, item, acc) ==
    IF acc.raised \/ statements = << >> THEN acc
    ELSE IF Head(statements).effect # "Allow" THEN root_statements(Tail(statements), item, acc)
    ELSE root_statements(Tail(statements), item,
                         root_whos(Head(statements).whos, Head(statements), item, acc))

RECURSIVE root_policies(_, _, _)
root_policies(policies, item, acc) ==
    IF acc.raised \/ policies = << >> THEN acc
    ELSE root_policies(Tail(policies), item,
                       root_statements(Head(policies).statements, item, acc))

check_root_cross_account(item, store) ==
    root_policies(load_policies(item), item, Acc(store, {}, FALSE))

(***************************************************************************)
(* Inputs: what the resource repository may hold when the builder runs,    *)
(* and the references and items handed to the resolver and the checks      *)
(***************************************************************************)
Repo(s3, iamuser, iamrole, accounts, vpc, endpoint, natgateway, whitelist) ==
    [s3 |-> s3, iamuser |-> iamuser, iamrole |-> iamrole, accounts |-> accounts,
     vpc |-> vpc, endpoint |-> endpoint, natgateway |-> natgateway, whitelist |-> whitelist]

S3Rows == {<< >>, <<[name |-> "b1", account |-> ACCT_3], [name |-> "b1", account |-> ACCT_1]>>}

IamUserRows == {<< >>, <<[UserId |-> "AIDA1", account |-> ACCT_2]>>}

\* a role whose configuration holds no RoleId
IamRoleRows == {<< >>, <<[RoleId |-> None, account |-> ACCT_1]>>}

AccountRows ==
    {<< >>,
     <<[identifier |-> ACCT_1, third_party |-> FALSE]>>,
     <<[identifier |-> ACCT_1, third_party |-> FALSE],
       [identifier |-> ACCT_2, third_party |-> TRUE]>>}

VpcRows == {<< >>, <<[id |-> "vpc-1", cidr_block |-> "4/1", account |-> ACCT_1]>>}

EndpointRows == {<< >>, <<[id |-> "vpce-1", account |-> ACCT_3]>>}

NatRows ==
    {<< >>,
     <<[nat_gateway_addresses |-> <<[public_ip |-> "6", private_ip |-> "5"]>>,
        account |-> ACCT_2]>>}

WhitelistRows == {<< >>, <<[cidr |-> "0/1"]>>}

\* the repositories of the builder-and-resolver specification
Repos ==
    {Repo(s3, u, r, a, v, << >>, n, w) :
        s3 \in S3Rows, u \in IamUserRows \ {<< >>}, r \in IamRoleRows \ {<< >>},
        a \in AccountRows, v \in VpcRows, n \in NatRows, w \in WhitelistRows}
    \cup {Repo(<< >>, << >>, << >>, << >>, << >>, e, << >>, << >>) : e \in EndpointRows}

\* the repositories of the audit specification: one VPC, the registry varies
AuditRepos ==
    {Repo(<< >>, << >>, << >>, a, <<[id |-> "vpc-1", cidr_block |-> "4/1", account |-> ACCT_1]>>,
          << >>, << >>, << >>) : a \in AccountRows}

Homes == {ACCT_1, ACCT_2}

Home(account) == [account |-> account, policies |-> << >>]

\* the networks asked about: every network written with its own base address,
\* one written with a host address, and one host
CidrQueries ==
    {CidrStr(n) : n \in {m \in Nets : m.ip % (2 ^ (AddrBits - m.prefixlen)) = 0}}
    \cup {"5/2", "6"}

KBWhos ==
    {Who("account", a) : a \in {SENTINEL, ACCT_1, ACCT_2, ACCT_3}}
    \cup {Who("cidr", c) : c \in CidrQueries}
    \cup {Who("arn", BUCKET_ARN), Who("principal", ROLE_ARN_1), Who("userid", "AIDA1:session"),
          Who("vpce", "vpce-1"), Who("org-id", "o-1")}

AuditWhos ==
    {Who("principal", "*"), Who("arn", "*"), Who("principal", SERVICE), Who("arn", SERVICE),
     Who("principal", BAD_ARN), Who("principal", ROLE_ARN_1), Who("principal", ROOT_ARN_1),
     Who("arn", ROOT_ARN_2), Who("vpc", "vpc-1"), Who("org-id", "o-1")}

Effects == {"Allow", "Deny"}

SinglePolicies ==
    {Policy(ia, <<Statement(e, <<w>>)>>) : ia \in BOOLEAN, e \in Effects, w \in AuditWhos}

\* policies that come before another one in an item
LeadPolicies ==
    {Policy(FALSE, <<Statement("Allow", <<Who("principal", BAD_ARN)>>)>>),
     Policy(TRUE, <<Statement("Allow", <<Who("arn", ROOT_ARN_2)>>)>>),
     EmptyDoc}

\* policies of two references: in one statement, or in two statements
PairPolicies ==
    {Policy(FALSE, <<Statement("Allow", <<Who("principal", BAD_ARN), w>>)>>) : w \in AuditWhos}
    \cup {Policy(FALSE, <<Statement("Deny", <<Who("arn", ROOT_ARN_2)>>),
                          Statement("Allow", <<w>>)>>) : w \in AuditWhos}

LastPolicies == {Policy(FALSE, <<Statement("Allow", <<w>>)>>) : w \in AuditWhos}

RECURSIVE Leads(_)
Leads(n) ==
    IF n = 0 THEN {<< >>}
    ELSE {<<p>> \o l : p \in LeadPolicies, l \in Leads(n - 1)}

PolicyLists ==
    {<<p>> : p \in SinglePolicies \cup PairPolicies}
    \cup {l \o <<p>> : l \in UNION {Leads(n) : n \in 1 .. (MaxPolicies - 1)}, p \in LastPolicies}

Items == {[account |-> h, policies |-> ps] : h \in Homes, ps \in PolicyLists}

(***************************************************************************)
(* State and operations                                                    *)
(***************************************************************************)
Runs == {1, 2}

NoWho == Who("", "")

Call(op, who, item, ret, found, raised, flag) ==
    [op |-> op, who |-> who, item |-> item, ret |-> ret, issues |-> found,
     raised |-> raised, flag |-> flag]

Init ==
    /\ OBJECT_STORE = EmptyDict
    /\ last = Call("init", NoWho, Home(""), PyStr(""), {}, FALSE, FALSE)
    /\ pc = [r \in Runs |-> "idle"]
    /\ passes = 0

\* prep_for_audit; flag: the call found tables, and a build from the repository as it
\* is now would not give them
PrepForAudit(repo) ==
    /\ OBJECT_STORE' = prep_for_audit(OBJECT_STORE, repo)
    /\ passes' = IF StoreIsFalse(OBJECT_STORE) THEN passes + 1 ELSE passes
    /\ last' = Call("prep_for_audit", NoWho, Home(""), PyStr(""), {}, FALSE,
                    ~StoreIsFalse(OBJECT_STORE) /\ LoadFrom(EmptyDict, repo, 1) # OBJECT_STORE)
    /\ UNCHANGED pc

InspectWho(who, item) ==
    LET r == inspect_who(who, item, OBJECT_STORE)
    IN  /\ OBJECT_STORE' = r.store
        /\ last' = Call("inspect_who", who, item, r.ret, r.issues, r.ret.type = "raise", FALSE)
        /\ UNCHANGED <<pc, passes>>

CheckFriendly(item) ==
    LET acc == check_friendly_cross_account(item, OBJECT_STORE)
    IN  /\ OBJECT_STORE' = acc.store
        /\ last' = Call("check_friendly_cross_account", NoWho, item, PyStr(""),
                        acc.issues, acc.raised, FALSE)
        /\ UNCHANGED <<pc, passes>>

CheckThirdparty(item) ==
    LET acc == check_thirdparty_cross_account(item, OBJECT_STORE)
    IN  /\ OBJECT_STORE' = acc.store
        /\ last' = Call("check_thirdparty_cross_account", NoWho, item, PyStr(""),
                        acc.issues, acc.raised, FALSE)
        /\ UNCHANGED <<pc, passes>>

CheckUnknown(item) ==
    LET acc == check_unknown_cross_account(item, OBJECT_STORE)
    IN  /\ OBJECT_STORE' = acc.store
        /\ last' = Call("check_unknown_cross_account", NoWho, item, PyStr(""),
                        acc.issues, acc.raised, FALSE)
        /\ UNCHANGED <<pc, passes>>

CheckRoot(item) ==
    LET acc == check_root_cross_account(item, OBJECT_STORE)
    IN  /\ OBJECT_STORE' = acc.store
        /\ last' = Call("check_root_cross_account", NoWho, item, PyStr(""),
                        acc.issues, acc.raised, FALSE)
        /\ UNCHANGED <<pc, passes>>

\* an auditor and its items: the builder, the resolver and the four checks, in any order
Next ==
    \/ \E repo \in AuditRepos : PrepForAudit(repo)
    \/ \E who \in AuditWhos, h \in Homes : InspectWho(who, Home(h))
    \/ \E item \in Items : CheckFriendly(item)
    \/ \E item \in Items : CheckThirdparty(item)
    \/ \E item \in Items : CheckUnknown(item)
    \/ \E item \in Items : CheckRoot(item)

Spec == Init /\ [][Next]_vars

\* the builder and the resolver over the repositories and references of the tables
NextKB ==
    \/ \E repo \in Repos : PrepForAudit(repo)
    \/ \E who \in KBWhos, h \in Homes : InspectWho(who, Home(h))

SpecKB == Init /\ [][NextKB]_vars

(***************************************************************************)
(* Audit runs that interleave: each run calls prep_for_audit, whose guard  *)
(* and seven load steps are separate steps, and then resolves references.  *)
(***************************************************************************)
LoadPc == <<"load1", "load2", "load3", "load4", "load5", "load6", "load7">>

Loading == {LoadPc[n] : n \in DOMAIN LoadPc}

ConcWhos == {Who("account", ACCT_2), Who("vpc", "vpc-1"), Who("principal", ROLE_ARN_1)}

\* prep_for_audit is entered and its guard evaluated
Enter(r) ==
    /\ pc[r] = "idle"
    /\ pc' = [pc EXCEPT ![r] = IF StoreIsFalse(OBJECT_STORE) THEN LoadPc[1] ELSE "audit"]
    /\ passes' = IF StoreIsFalse(OBJECT_STORE) THEN passes + 1 ELSE passes
    /\ UNCHANGED <<OBJECT_STORE, last>>

\* the next load step of a populating pass
Load(r, repo) ==
    \E n \in DOMAIN LoadPc :
        /\ pc[r] = LoadPc[n]
        /\ OBJECT_STORE' = LoadStep(OBJECT_STORE, repo, n)
        /\ pc' = [pc EXCEPT ![r] = IF n = Len(LoadPc) THEN "audit" ELSE LoadPc[n + 1]]
        /\ UNCHANGED <<last, passes>>

\* a check of the run resolves a reference; flag: some run is populating at that moment
Resolve(r, who, item) ==
    LET res == inspect_who(who, item, OBJECT_STORE)
    IN  /\ pc[r] = "audit"
        /\ OBJECT_STORE' = res.store
        /\ last' = Call("inspect_who", who, item, res.ret, res.issues, res.ret.type = "raise",
                        \E q \in Runs : pc[q] \in Loading)
        /\ UNCHANGED <<pc, passes>>

Finish(r) ==
    /\ pc[r] = "audit"
    /\ pc' = [pc EXCEPT ![r] = "done"]
    /\ UNCHANGED <<OBJECT_STORE, last, passes>>

NextConc ==
    \/ \E r \in Runs : Enter(r)
    \/ \E r \in Runs, repo \in AuditRepos : Load(r, repo)
    \/ \E r \in Runs, who \in ConcWhos, h \in Homes : Resolve(r, who, Home(h))
    \/ \E r \in Runs : Finish(r)

SpecConc == Init /\ [][NextConc]_vars

(***************************************************************************)
(* Vocabulary of the properties                                            *)
(***************************************************************************)
Range(seq) == {seq[i] : i \in DOMAIN seq}

\* the account registry holds both of its sets
RegistryDefined(store) ==
    /\ "ACCOUNTS" \in DOMAIN store
    /\ {"FRIENDLY", "THIRDPARTY"} \subseteq DOMAIN store["ACCOUNTS"]

\* some table of the knowledge base holds an entry
KBNonEmpty(store) == \E t \in DOMAIN store : DOMAIN store[t] # {}

CheckOps ==
    {"check_friendly_cross_account", "check_thirdparty_cross_account",
     "check_unknown_cross_account", "check_root_cross_account"}

KnownCategories == {"arn", "principal", "account", "userid", "cidr", "vpc", "vpce"}

\* the tier the precedence of the registry gives an account id
ExpectedTier(a, home, store) ==
    IF a = SENTINEL THEN "SAME"
    ELSE IF a = home THEN "SAME"
    ELSE IF a \in store["ACCOUNTS"]["FRIENDLY"] THEN "FRIENDLY"
    ELSE IF a \in store["ACCOUNTS"]["THIRDPARTY"] THEN "THIRDPARTY"
    ELSE "UNKNOWN"

\* the addresses of the network a text denotes
Hosts(text) ==
    LET n == IPNetwork(text)
        size == 2 ^ (AddrBits - n.prefixlen)
    IN  {a \in Addrs : a \div size = n.ip \div size}

\* the owners of every stored network that contains the network asked about
ContainingOwners(q, store) ==
    IF "cidr" \notin DOMAIN store THEN {}
    ELSE UNION {store["cidr"][k] : k \in {c \in DOMAIN store["cidr"] : Hosts(q) \subseteq Hosts(c)}}

\* the documents of an item, and the references of a document's Allow statements
Docs(item) == {p \in Range(item.policies) : p # EmptyDoc}

AllowStatements(policy) == {st \in Range(policy.statements) : st.effect = "Allow"}

RefsOf(policy) == UNION {Range(st.whos) : st \in AllowStatements(policy)}

Unparsable(who) ==
    who.category \in {"arn", "principal"} /\ who.value # "*" /\ ARN(who.value).error

ParseFinding(who) == Finding(3, "Auditor could not parse ARN", who.value)

ParseFindings(refs) == {ParseFinding(w) : w \in {v \in refs : Unparsable(v)}}

\* what the resolver answers for a reference of the item of the last call
Resolved(who) == inspect_who(who, last.item, OBJECT_STORE).ret

UnknownFinding(who) == Finding(10, "Unknown Cross Account Access", Notes(who))

RootFinding(account_number) ==
    [tag |-> "root-access", account_number |-> account_number, actions |-> {"sns:Publish"}]

AccountIds == {SENTINEL, ACCT_1, ACCT_2, ACCT_3}

(***************************************************************************)
(* Properties                                                              *)
(***************************************************************************)

\* C1: inspect_who_account gives one tier, by this precedence: SAME for the
\* sentinel, else SAME for the home account's identifier even when it is in
\* the registry, else FRIENDLY, else THIRDPARTY, else UNKNOWN. The sentinel
\* and the home account need no registry; the other ids are judged against the
\* registry the builder has filled in.
C1_AccountPrecedence ==
    /\ \A a \in AccountIds \cup {None}, h \in Homes :
          (RegistryDefined(OBJECT_STORE) \/ a \in {SENTINEL, h}) =>
              inspect_who_account(a, [identifier |-> h], OBJECT_STORE).ret
                  = ExpectedTier(a, h, OBJECT_STORE)
    /\ (/\ last.op = "inspect_who"
        /\ last.who.category = "account"
        /\ (RegistryDefined(OBJECT_STORE) \/ last.who.value \in {SENTINEL, last.item.account}))
       => last.ret = PySet({ExpectedTier(last.who.value, last.item.account, OBJECT_STORE)})

\* C1's case: the home account's id, also registered FRIENDLY, was resolved as SAME
C1_Witness ==
    /\ last.op = "inspect_who"
    /\ last.who.category = "account"
    /\ last.who.value = last.item.account
    /\ RegistryDefined(OBJECT_STORE)
    /\ last.who.value \in OBJECT_STORE["ACCOUNTS"]["FRIENDLY"]
    /\ last.ret = PySet({"SAME"})

\* C2: with the registry built, inspect_who_cidr returns the tiers of the
\* owners of every stored network whose addresses include all the addresses of
\* the network asked about, and {UNKNOWN} when there is no such network.
C2_CidrContainment ==
    (/\ last.op = "inspect_who"
     /\ last.who.category = "cidr"
     /\ RegistryDefined(OBJECT_STORE))
    => LET owners == ContainingOwners(last.who.value, OBJECT_STORE)
       IN  last.ret = PySet(IF owners = {} THEN {"UNKNOWN"}
                            ELSE {ExpectedTier(a, last.item.account, OBJECT_STORE) : a \in owners})

\* C2's case: the network asked about is stored nowhere, lies strictly inside a
\* stored network, and was resolved to that network's owners
C2_Witness ==
    /\ last.op = "inspect_who"
    /\ last.who.category = "cidr"
    /\ RegistryDefined(OBJECT_STORE)
    /\ "cidr" \in DOMAIN OBJECT_STORE
    /\ \A k \in DOMAIN OBJECT_STORE["cidr"] : Hosts(k) # Hosts(last.who.value)
    /\ \E k \in DOMAIN OBJECT_STORE["cidr"] : Hosts(last.who.value) \subseteq Hosts(k)
    /\ last.ret.type = "set"
    /\ "UNKNOWN" \notin last.ret.set

\* C3: a prep_for_audit call that finds an entry in some table changes no table,
\* whatever the repository holds at that moment.
C3_BuilderIdempotent ==
    [][(last'.op = "prep_for_audit" /\ KBNonEmpty(OBJECT_STORE))
          => OBJECT_STORE' = OBJECT_STORE]_vars

\* C3's case: prep_for_audit was called on filled tables while the repository
\* would have built other tables
C3_Witness ==
    /\ last.op = "prep_for_audit"
    /\ last.flag
    /\ KBNonEmpty(OBJECT_STORE)
    /\ passes = 1

\* C4: at most one populating pass ever runs, and no reference is resolved
\* while a populating pass is under way.
C4_BuildBeforeResolve ==
    /\ passes <= 1
    /\ last.op = "inspect_who" => ~last.flag

\* C5: a resolution or a check leaves OBJECT_STORE, the set of its table names
\* included, as it found it.
C5_ChecksOnlyRead ==
    [][last'.op \in CheckOps \cup {"inspect_who"} => OBJECT_STORE' = OBJECT_STORE]_vars

\* C6: a reference of a category the resolver does not know resolves to the set
\* {ERROR}, and an item whose references are all of such categories gets no
\* finding from any check.
C6_UnknownCategoryIsErrorSet ==
    /\ (last.op = "inspect_who" /\ last.who.category \notin KnownCategories)
          => last.ret = PySet({"ERROR"})
    /\ (/\ last.op \in CheckOps
        /\ \A p \in Docs(last.item) : \A st \in Range(p.statements) :
              \A w \in Range(st.whos) : w.category \notin KnownCategories)
          => last.issues = {}

\* C7: with the registry built, no check is left by an exception; resolving an
\* unparsable ARN records the parse finding (severity 3) and returns a set of
\* tiers; and a check records what every reference of every policy of the item
\* calls for, whether or not it comes after an unparsable one.
C7_ParseErrorDoesNotAbort ==
    RegistryDefined(OBJECT_STORE) =>
        /\ last.op \in CheckOps => ~last.raised
        /\ (last.op = "inspect_who" /\ Unparsable(last.who)) =>
              /\ last.ret.type = "set"
              /\ last.ret.set # {}
              /\ last.issues = {ParseFinding(last.who)}
        /\ last.op = "check_friendly_cross_account" =>
              LET refs == UNION {RefsOf(p) : p \in Docs(last.item)}
              IN  last.issues =
                      {record_friendly_cross_account_access_issue(w) :
                          w \in {v \in refs : PyIn("FRIENDLY", Resolved(v))}}
                      \cup ParseFindings(refs)
        /\ last.op = "check_thirdparty_cross_account" =>
              LET refs == UNION {RefsOf(p) : p \in Docs(last.item)}
              IN  last.issues =
                      {record_thirdparty_cross_account_access_issue(w) :
                          w \in {v \in refs : PyIn("THIRDPARTY", Resolved(v))}}
                      \cup ParseFindings(refs)
        /\ last.op = "check_unknown_cross_account" =>
              LET refs == UNION {RefsOf(p) :
                                    p \in {d \in Docs(last.item) : ~d.internet_accessible}}
              IN  /\ ParseFindings(refs) \subseteq last.issues
                  /\ \A w \in {v \in refs : v.category # "principal"} :
                        PyIn("UNKNOWN", Resolved(w)) => UnknownFinding(w) \in last.issues

\* C7's case: a check met an unparsable ARN, recorded it, and went on to report
\* the reference after it
C7_Witness ==
    /\ RegistryDefined(OBJECT_STORE)
    /\ last.op = "check_unknown_cross_account"
    /\ ~last.raised
    /\ \E p \in Docs(last.item) : \E st \in Range(p.statements) :
          /\ Len(st.whos) = 2
          /\ Unparsable(st.whos[1])
          /\ ParseFinding(st.whos[1]) \in last.issues
          /\ UnknownFinding(st.whos[2]) \in last.issues
          /\ st.whos[2] # st.whos[1]

\* C8 as first stated: with the registry built, check_unknown_cross_account
\* reports a reference exactly when a policy that is not internet-accessible
\* holds it, it is not '*', its ARN is no service principal (both whatever its
\* category) and it resolves to UNKNOWN.
C8_UnknownAnyCategory ==
    (last.op = "check_unknown_cross_account" /\ RegistryDefined(OBJECT_STORE)) =>
        \A w \in AuditWhos :
            UnknownFinding(w) \in last.issues <=>
                \E p \in Docs(last.item) :
                    /\ ~p.internet_accessible
                    /\ w \in RefsOf(p)
                    /\ w.value # "*"
                    /\ ~ARN(w.value).service
                    /\ PyIn("UNKNOWN", Resolved(w))

\* C8, amended: the wildcard and the service principal are passed over only in
\* the category principal; with the registry built, a reference is reported
\* exactly when a policy that is not internet-accessible holds it, it is not a
\* principal that is '*' or a service, and it resolves to UNKNOWN.
C8_UnknownExactlyWhen ==
    (last.op = "check_unknown_cross_account" /\ RegistryDefined(OBJECT_STORE)) =>
        \A w \in AuditWhos :
            UnknownFinding(w) \in last.issues <=>
                \E p \in Docs(last.item) :
                    /\ ~p.internet_accessible
                    /\ w \in RefsOf(p)
                    /\ ~(w.category = "principal" /\ w.value = "*")
                    /\ ~(w.category = "principal" /\ ARN(w.value).service)
                    /\ PyIn("UNKNOWN", Resolved(w))

\* C8's case: a wildcard of category arn, held by a policy that is not
\* internet-accessible and comes after one that is, was reported as unknown
C8_Witness ==
    /\ last.op = "check_unknown_cross_account"
    /\ RegistryDefined(OBJECT_STORE)
    /\ UnknownFinding(Who("arn", "*")) \in last.issues
    /\ \E p \in Docs(last.item) : p.internet_accessible

\* C9: with the registry built, check_root_cross_account reports the root user
\* of an account exactly when an Allow statement holds a reference of category
\* arn or principal, not '*', whose ARN is that account's root user and whose
\* tiers meet {FRIENDLY, THIRDPARTY, UNKNOWN}; it records nothing else.
C9_RootExactlyWhen ==
    (last.op = "check_root_cross_account" /\ RegistryDefined(OBJECT_STORE)) =>
        /\ last.issues \subseteq {RootFinding(a) : a \in AccountIds}
        /\ \A a \in AccountIds :
              RootFinding(a) \in last.issues <=>
                  \E p \in Docs(last.item) : \E st \in Range(p.statements) :
                      \E w \in Range(st.whos) :
                          /\ st.effect = "Allow"
                          /\ w.category \in {"arn", "principal"}
                          /\ w.value # "*"
                          /\ ARN(w.value).root
                          /\ ARN(w.value).account_number = a
                          /\ Resolved(w).set \cap CrossTiers # {}

\* C9's case: a root user of another account was reported from an Allow
\* statement that follows a Deny statement naming a root user
C9_Witness ==
    /\ last.op = "check_root_cross_account"
    /\ RegistryDefined(OBJECT_STORE)
    /\ RootFinding(ACCT_1) \in last.issues
    /\ \E p \in Docs(last.item) : \E st \in Range(p.statements) : st.effect = "Deny"

\* C10: whatever was called before, a prep_for_audit call leaves the tables
\* populated by exactly one pass and the FRIENDLY and THIRDPARTY sets defined.
C10_FirstPrepPopulates ==
    last.op = "prep_for_audit" => (passes = 1 /\ RegistryDefined(OBJECT_STORE))

====
